---- MODULE Spec2Model ----
(***************************************************************************)
(* A model of gradio's request queue, src/gradio/queue.py: the event       *)
(* queue and its admission (push), batch formation (get_events_in_batch),  *)
(* the dispatcher loop (start_processing), the per-batch coroutine         *)
(* (process_events) with its cleanup, the estimator (update_estimation,    *)
(* get_estimation, send_estimation) and the broadcaster.                   *)
(*                                                                         *)
(* Scheduling.  Everything runs on one asyncio event loop, so a coroutine  *)
(* runs without interruption from one suspension point to the next.  The   *)
(* suspension points are the websocket calls (send_json, receive_json,     *)
(* close), the HTTP requests (Request) and asyncio.sleep.  Acquiring       *)
(* delete_lock does not suspend: asyncio.Lock.acquire returns at once when *)
(* the lock is free, and no holder of the lock awaits while holding it, so *)
(* the lock is free whenever a coroutine reaches it.  An action of this    *)
(* model is one such uninterrupted stretch (or several consecutive ones    *)
(* whose effects are private to the coroutine and to one client's          *)
(* connection).                                                            *)
(*                                                                         *)
(* Events are numbered 1, 2, ... in the order in which push is called for  *)
(* them, so "pushed earlier" is "smaller number".  The queue is one that   *)
(* is not closed: close() and resume() are left out, stopped stays False.  *)
(* An Event that nothing refers to any more (its batch has finished, it    *)
(* was pruned, or push refused it) has its fields and its message log      *)
(* reset, as has the record of a finished process_events coroutine; the    *)
(* message log of a batch is dropped when its finally block has closed the *)
(* connections.                                                            *)
(*                                                                         *)
(* A run is either one in which no connection and no request fails (with   *)
(* up to MaxEvents events) or one in which they may fail at every          *)
(* suspension point (with up to MaxFaultyEvents events).  A prediction     *)
(* call takes one unit of time, so the duration of a cycle is the number   *)
(* of calls it made.                                                       *)
(***************************************************************************)
EXTENDS Integers, Sequences, FiniteSets, TLC

(***************************** bounds **************************************)
\* Number of Event objects ever handed to push in a run whose clients and
\* prediction endpoint never fail.
MaxEvents == 3
\* The same number in a run in which connections and the endpoint may fail.
MaxFaultyEvents == 2
\* Largest number of is_generating=true answers one batch is given.
MaxGen == 2
\* Largest duration fed to the estimator in EstSpec, and the number of
\* durations fed.
MaxDuration == 2
MaxSamples == 3

(***************************** configuration *******************************)
\* Endpoint indices (Event.fn_index) used by the pushed events.
FnIndices == {0, 1}
\* max_size = None is written NoLimit.
NoLimit == 0 - 1
\* blocks_dependencies: per endpoint, the "batch" flag and "max_batch_size".
NoBatching == [f \in FnIndices |-> [batch |-> FALSE, max_batch_size |-> 4]]
BatchingOnZero == [NoBatching EXCEPT ![0] = [batch |-> TRUE, max_batch_size |-> 2]]

(***************************** helpers *************************************)
Range(s) == {s[i] : i \in DOMAIN s}
Events == 1..MaxEvents
Min(a, b) == IF a <= b THEN a ELSE b

RECURSIVE SelectSeqBy(_, _)
\* [x for x in s if x in keep], as a sequence
SelectSeqBy(s, keep) ==
    IF s = <<>> THEN <<>>
    ELSE IF Head(s) \in keep THEN <<Head(s)>> \o SelectSeqBy(Tail(s), keep)
         ELSE SelectSeqBy(Tail(s), keep)

\* Python's s[:n], negative n included (s[:-1] drops the last element).
PySlicePrefix(s, n) ==
    IF n >= 0 THEN SubSeq(s, 1, Min(n, Len(s)))
    ELSE SubSeq(s, 1, IF Len(s) + n < 0 THEN 0 ELSE Len(s) + n)

\* Position of the first occurrence of x in s, 0 when there is none.
FirstIndex(s, x) ==
    IF \E i \in DOMAIN s : s[i] = x
    THEN CHOOSE i \in DOMAIN s : s[i] = x /\ \A j \in 1..(i - 1) : s[j] # x
    ELSE 0

RemoveAt(s, i) == SubSeq(s, 1, i - 1) \o SubSeq(s, i + 1, Len(s))
Last(s) == s[Len(s)]

(***************************** rationals ***********************************)
\* Python floats are modelled as exact fractions <<numerator, denominator>>
\* in lowest terms; None is <<0, 0>>.
RECURSIVE GCD(_, _)
GCD(a, b) == IF b = 0 THEN a ELSE GCD(b, a % b)
None == <<0, 0>>
Rat(n, d) == LET g == GCD(n, d) IN IF g = 0 THEN <<0, 1>> ELSE <<n \div g, d \div g>>
RatInt(n) == <<n, 1>>
RatAdd(x, y) == Rat(x[1] * y[2] + y[1] * x[2], x[2] * y[2])
RatMul(x, y) == Rat(x[1] * y[1], x[2] * y[2])
RatDivInt(x, n) == Rat(x[1], x[2] * n)
\* int(x) for x >= 0, as pydantic coerces a float given for an int field
RatToInt(x) == x[1] \div x[2]

(***************************** payloads ************************************)
\* JSON values are written as token sequences: a list or tuple is LP, its
\* elements, RP; an atom is one positive number.  The payload a client sends
\* for event e is the one-element list [e].
LP == 0 - 1
RP == 0 - 2
EncList(elems) ==
    LET RECURSIVE Cat(_)
        Cat(ss) == IF ss = <<>> THEN <<>> ELSE Head(ss) \o Cat(Tail(ss))
    IN <<LP>> \o Cat(elems) \o <<RP>>

RECURSIVE SplitFrom(_, _, _, _, _)
SplitFrom(toks, i, depth, cur, acc) ==
    IF i > Len(toks) THEN acc
    ELSE LET tok == toks[i]
             d2 == IF tok = LP THEN depth + 1 ELSE IF tok = RP THEN depth - 1 ELSE depth
             cur2 == Append(cur, tok)
         IN IF d2 = 0 THEN SplitFrom(toks, i + 1, 0, <<>>, Append(acc, cur2))
            ELSE SplitFrom(toks, i + 1, d2, cur2, acc)
\* The elements of an encoded list.
TopElems(d) == SplitFrom(SubSeq(d, 2, Len(d) - 1), 1, 0, <<>>, <<>>)

\* list(zip(*ls)) for a sequence ls of encoded lists
ZipStar(ls) ==
    IF ls = <<>> THEN EncList(<<>>)
    ELSE LET parts == [i \in DOMAIN ls |-> TopElems(ls[i])]
             m == CHOOSE k \in 0..20 :
                    /\ \A i \in DOMAIN parts : Len(parts[i]) >= k
                    /\ \E i \in DOMAIN parts : Len(parts[i]) = k
         IN EncList([j \in 1..m |-> EncList([i \in DOMAIN ls |-> parts[i][j]])])

\* PredictBody: data is None (present = FALSE) or a body with .data and .batched
NoData == [present |-> FALSE, data |-> <<>>, batched |-> FALSE]
ClientPayload(e) == [present |-> TRUE, data |-> EncList(<<(<<e>>)>>), batched |-> FALSE]

(***************************** state ***************************************)
VARIABLES
    \* constructor arguments and the interpreter (fixed after Init)
    live_updates, max_thread_count, max_size, blocks_dependencies, py_lt_38,
    \* the environment of the run: whether websockets, clients and the
    \* prediction endpoint may fail in it (fixed after Init)
    faulty,
    \* Queue fields
    event_queue, active_jobs,
    duration_history_total, duration_history_count,
    avg_process_time, avg_concurrent_process_time, queue_duration,
    \* Event objects: how many were made, and their fields
    next_event, fn_index, data, websocket,
    \* coroutines: whether start() ran (start_processing, and notify_clients
    \* unless live_updates), process_events (one per batch, named by the
    \* batch's first event), broadcast_estimations
    started, task, bcast,
    \* what is observed: the messages handed to each websocket by
    \* process_events, what the step just taken returned from push or sent as
    \* an estimation, slot releases per batch, a ValueError from deque.remove
    sent, returned, last_estimations, releases, value_error

confVars == <<live_updates, max_thread_count, max_size, blocks_dependencies,
              py_lt_38, faulty>>
estVars == <<duration_history_total, duration_history_count,
             avg_process_time, avg_concurrent_process_time, queue_duration>>
eventVars == <<next_event, fn_index, data, websocket>>
vars == <<confVars, event_queue, active_jobs, estVars, eventVars,
          started, task, bcast,
          sent, returned, last_estimations, releases, value_error>>

\* push's return value None, and "the step just taken was not a push"
Full == 0 - 1
NoCall == 0 - 2
\* an empty cell of active_jobs (None)
Empty == <<>>

(***************************** the queue ***********************************)
\* deque.remove(e): removes the first occurrence, raises ValueError if none
DequeRemove(q, e) ==
    LET i == FirstIndex(q, e)
    IN IF i = 0 THEN [queue |-> q, error |-> TRUE]
       ELSE [queue |-> RemoveAt(q, i), error |-> FALSE]

RECURSIVE RemoveEach(_, _)
\* [q.remove(e) for e in es]
RemoveEach(q, es) ==
    IF es = <<>> THEN [queue |-> q, error |-> FALSE]
    ELSE LET r == DequeRemove(q, Head(es))
             rr == RemoveEach(r.queue, Tail(es))
         IN [queue |-> rr.queue, error |-> r.error \/ rr.error]

\* clean_event without its membership test
CleanEvent_NoTest(q, e) == DequeRemove(q, e)
\* clean_event: "if event in self.event_queue: async with self.delete_lock:
\* remove".  The lock is free when it is reached, so test and removal are one
\* stretch.
CleanEvent(q, e) ==
    IF e \in Range(q) THEN DequeRemove(q, e) ELSE [queue |-> q, error |-> FALSE]

RECURSIVE CleanEach(_, _)
\* clean_event for each of es in turn
CleanEach(q, es) ==
    IF es = <<>> THEN [queue |-> q, error |-> FALSE]
    ELSE LET r == CleanEvent(q, Head(es))
             rr == CleanEach(r.queue, Tail(es))
         IN [queue |-> rr.queue, error |-> r.error \/ rr.error]

\* push with the bound compared by > instead of >=
PushResult_OffByOne(q, e) ==
    IF max_size # NoLimit /\ Len(q) > max_size
    THEN [queue |-> q, rank |-> Full]
    ELSE [queue |-> Append(q, e), rank |-> Len(q)]
\* push
PushResult(q, e) ==
    LET queue_len == Len(q)
    IN IF max_size # NoLimit /\ queue_len >= max_size
       THEN [queue |-> q, rank |-> Full]
       ELSE [queue |-> Append(q, e), rank |-> queue_len]

\* get_events_in_batch taking batch_size further events instead of batch_size - 1
GetEventsInBatch_TooMany(q) ==
    LET first_event == Head(q)
        event_fn_index == fn_index[first_event]
        dep == blocks_dependencies[event_fn_index]
        rest_of_batch == PySlicePrefix(
            SelectSeqBy(Tail(q), {e \in Events : fn_index[e] = event_fn_index}),
            dep.max_batch_size)
    IN IF dep.batch
       THEN [events |-> <<first_event>> \o rest_of_batch, batch |-> TRUE,
             queue |-> RemoveEach(Tail(q), rest_of_batch).queue,
             error |-> RemoveEach(Tail(q), rest_of_batch).error]
       ELSE [events |-> <<first_event>>, batch |-> FALSE, queue |-> Tail(q), error |-> FALSE]
\* get_events_in_batch filling the batch with the last matching events
GetEventsInBatch_LastMatches(q) ==
    LET first_event == Head(q)
        event_fn_index == fn_index[first_event]
        dep == blocks_dependencies[event_fn_index]
        matching == SelectSeqBy(Tail(q), {e \in Events : fn_index[e] = event_fn_index})
        keep == Min(Len(matching), dep.max_batch_size - 1)
        rest_of_batch == SubSeq(matching, Len(matching) - keep + 1, Len(matching))
        events == <<first_event>> \o rest_of_batch
    IN IF dep.batch
       THEN [events |-> events, batch |-> TRUE,
             queue |-> SelectSeqBy(Tail(q), Events \ Range(rest_of_batch)), error |-> FALSE]
       ELSE [events |-> <<first_event>>, batch |-> FALSE, queue |-> Tail(q), error |-> FALSE]
\* get_events_in_batch leaving the rest of the batch in the queue
GetEventsInBatch_KeepsRest(q) ==
    LET first_event == Head(q)
        event_fn_index == fn_index[first_event]
        dep == blocks_dependencies[event_fn_index]
        rest_of_batch == PySlicePrefix(
            SelectSeqBy(Tail(q), {e \in Events : fn_index[e] = event_fn_index}),
            dep.max_batch_size - 1)
    IN IF dep.batch
       THEN [events |-> <<first_event>> \o rest_of_batch, batch |-> TRUE,
             queue |-> Tail(q), error |-> FALSE]
       ELSE [events |-> <<first_event>>, batch |-> FALSE, queue |-> Tail(q), error |-> FALSE]
\* get_events_in_batch popping at the back of the deque
GetEventsInBatch_Newest(q) ==
    [events |-> <<Last(q)>>, batch |-> blocks_dependencies[fn_index[Last(q)]].batch,
     queue |-> SubSeq(q, 1, Len(q) - 1), error |-> FALSE]
\* get_events_in_batch on a non-empty queue (the dispatcher calls it in the
\* stretch in which it saw the queue non-empty)
GetEventsInBatch(q) ==
    LET first_event == Head(q)
        event_fn_index == fn_index[first_event]
        dep == blocks_dependencies[event_fn_index]
        rest_of_batch == PySlicePrefix(
            SelectSeqBy(Tail(q), {e \in Events : fn_index[e] = event_fn_index}),
            dep.max_batch_size - 1)
    IN IF dep.batch
       THEN [events |-> <<first_event>> \o rest_of_batch, batch |-> TRUE,
             queue |-> RemoveEach(Tail(q), rest_of_batch).queue,
             error |-> RemoveEach(Tail(q), rest_of_batch).error]
       ELSE [events |-> <<first_event>>, batch |-> FALSE, queue |-> Tail(q), error |-> FALSE]

(***************************** the slot table ******************************)
\* None in self.active_jobs
HasFreeSlot(jobs) == \E s \in DOMAIN jobs : jobs[s] = Empty
\* the claim written into the first cell, free or not
ClaimSlot_First(jobs, events) == [jobs EXCEPT ![1] = events]
\* self.active_jobs[self.active_jobs.index(None)] = events
ClaimSlot(jobs, events) == [jobs EXCEPT ![FirstIndex(jobs, Empty)] = events]
\* self.active_jobs[self.active_jobs.index(events)] = None
ReleaseSlot(jobs, events) ==
    IF FirstIndex(jobs, events) = 0 THEN jobs
    ELSE [jobs EXCEPT ![FirstIndex(jobs, events)] = Empty]

(***************************** the estimator *******************************)
EstState == [duration_history_total |-> duration_history_total,
             duration_history_count |-> duration_history_count,
             avg_process_time |-> avg_process_time,
             avg_concurrent_process_time |-> avg_concurrent_process_time,
             queue_duration |-> queue_duration]

\* update_estimation dividing by max_thread_count alone
UpdateEstimation_NoMin(est, duration, queue_len) ==
    LET total == est.duration_history_total + duration
        count == est.duration_history_count + 1
        avg == Rat(total, count)
        conc == RatDivInt(avg, max_thread_count)
    IN [duration_history_total |-> total, duration_history_count |-> count,
        avg_process_time |-> avg, avg_concurrent_process_time |-> conc,
        queue_duration |-> RatMul(conc, RatInt(queue_len))]
\* update_estimation
UpdateEstimation(est, duration, queue_len) ==
    LET total == est.duration_history_total + duration
        count == est.duration_history_count + 1
        avg == Rat(total, count)
        conc == RatDivInt(avg, Min(max_thread_count, count))
    IN [duration_history_total |-> total, duration_history_count |-> count,
        avg_process_time |-> avg, avg_concurrent_process_time |-> conc,
        queue_duration |-> RatMul(conc, RatInt(queue_len))]

\* the message kinds
NoEstimation == [msg |-> "none", rank |-> Full, queue_size |-> 0,
                 avg_event_process_time |-> None,
                 avg_event_concurrent_process_time |-> None,
                 rank_eta |-> None, queue_eta |-> None]
\* get_estimation reporting no queue_eta before the first update
GetEstimation_Absent ==
    [msg |-> "estimation", rank |-> Full, queue_size |-> Len(event_queue),
     avg_event_process_time |-> avg_process_time,
     avg_event_concurrent_process_time |-> avg_concurrent_process_time,
     rank_eta |-> None,
     queue_eta |-> IF duration_history_count = 0 THEN None
                   ELSE RatInt(RatToInt(queue_duration))]
\* get_estimation: rank and rank_eta default to None; queue_eta is declared
\* "queue_eta: int", so the constructor turns queue_duration into an integer
GetEstimation ==
    [msg |-> "estimation", rank |-> Full, queue_size |-> Len(event_queue),
     avg_event_process_time |-> avg_process_time,
     avg_event_concurrent_process_time |-> avg_concurrent_process_time,
     rank_eta |-> None,
     queue_eta |-> RatInt(RatToInt(queue_duration))]

\* send_estimation up to its send: the estimation object with rank and
\* rank_eta filled in
WithRank(estimation, r) ==
    [estimation EXCEPT
        !.rank = r,
        !.rank_eta =
            IF avg_concurrent_process_time # None
            THEN LET eta == RatAdd(RatMul(RatInt(r), avg_concurrent_process_time),
                                   avg_process_time)
                 IN IF ~HasFreeSlot(active_jobs)
                    THEN RatAdd(eta, avg_concurrent_process_time)
                    ELSE eta
            ELSE @]

(***************************** coroutine records ***************************)
NoResponse == [kind |-> "none", has_exception |-> FALSE, is_generating |-> FALSE,
               status |-> 0, has_data |-> FALSE, data |-> <<>>, leg |-> 0]
\* What the prediction endpoint can answer to the leg-th call of a batch whose
\* request body carries the data req: a transport error (has_exception, no
\* json), a 200 answer that is generating or final and echoes the request's
\* data as its output, or a 500 answer whose json holds no "data".
ResponseKinds == {"exception", "generating", "final", "failed"}
MakeResponse(kind, leg, req) ==
    [kind |-> kind,
     has_exception |-> kind = "exception",
     is_generating |-> kind = "generating",
     status |-> IF kind \in {"generating", "final"} THEN 200
                ELSE IF kind = "failed" THEN 500 ELSE 0,
     has_data |-> kind \in {"generating", "final"},
     data |-> IF kind \in {"generating", "final"} THEN req ELSE <<>>,
     leg |-> leg]

\* a process_events coroutine; pc is where it is suspended:
\*   "gather"   in the for loop of lines 274-281, before event number i
\*   "predict"  awaiting the Request of call_prediction
\*   "closing"  in the finally block, awaiting the disconnects
\*   "reset"    in the finally block, awaiting reset_iterators for awake[j]
\* status is the status of the answer on which the try block was left, 0
\* before that and when it was left on no answer or on a transport error
NoTask == [pc |-> "none", events |-> <<>>, batch |-> FALSE, awake |-> <<>>,
           i |-> 0, j |-> 0, request |-> <<>>, old_response |-> NoResponse,
           calls |-> 0, gens |-> 0, exit |-> "none", status |-> 0]
NewTask(c) == [NoTask EXCEPT !.pc = "gather", !.events = c.events,
                             !.batch = c.batch, !.i = 1]

\* a broadcast_estimations coroutine: the estimation object it shares among
\* its send_estimation calls, the events they are for in rank order, and the
\* events whose send failed and that are still to be pruned
NoBroadcast == [pc |-> "none", estimation |-> NoEstimation, todo |-> <<>>, failing |-> {}]

\* a relay that tags every message process_completed
Msg_Completed(kind, out, leg, success) ==
    [msg |-> "process_completed", output |-> out, leg |-> leg, success |-> success]
\* a message handed to send_message: its tag, its output (with the number of
\* the prediction call that produced it) and its success flag
Msg(kind, out, leg, success) == [msg |-> kind, output |-> out, leg |-> leg, success |-> success]
Control(kind) == Msg(kind, <<>>, 0, FALSE)

\* the relay loop starting at the second awake event
ToAll_SkipFirst(awake, m) ==
    [e \in Events |-> IF e \in Range(Tail(awake)) THEN <<m>> ELSE <<>>]
\* "for event in awake_events: await self.send_message(event, m)"
ToAll(awake, m) == [e \in Events |-> IF e \in Range(awake) THEN <<m>> ELSE <<>>]


(***************************** Init ****************************************)
\* The constructor's arguments, the interpreter and the environment of the
\* runs explored.
Configs ==
    {[live_updates |-> FALSE, concurrency_count |-> 2, max_size |-> NoLimit,
      blocks_dependencies |-> NoBatching, py_lt_38 |-> FALSE, faulty |-> FALSE],
     [live_updates |-> FALSE, concurrency_count |-> 1, max_size |-> NoLimit,
      blocks_dependencies |-> BatchingOnZero, py_lt_38 |-> FALSE, faulty |-> FALSE],
     [live_updates |-> FALSE, concurrency_count |-> 1, max_size |-> 2,
      blocks_dependencies |-> NoBatching, py_lt_38 |-> FALSE, faulty |-> FALSE],
     [live_updates |-> TRUE, concurrency_count |-> 2, max_size |-> NoLimit,
      blocks_dependencies |-> BatchingOnZero, py_lt_38 |-> FALSE, faulty |-> TRUE],
     [live_updates |-> FALSE, concurrency_count |-> 1, max_size |-> 1,
      blocks_dependencies |-> BatchingOnZero, py_lt_38 |-> TRUE, faulty |-> TRUE],
     [live_updates |-> FALSE, concurrency_count |-> 2, max_size |-> NoLimit,
      blocks_dependencies |-> NoBatching, py_lt_38 |-> FALSE, faulty |-> TRUE]}

Init ==
    /\ \E cfg \in Configs :
        /\ live_updates = cfg.live_updates
        /\ max_thread_count = cfg.concurrency_count
        /\ max_size = cfg.max_size
        /\ blocks_dependencies = cfg.blocks_dependencies
        /\ py_lt_38 = cfg.py_lt_38
        /\ faulty = cfg.faulty
    /\ event_queue = <<>>
    /\ active_jobs = [s \in 1..max_thread_count |-> Empty]
    /\ duration_history_total = 0
    /\ duration_history_count = 0
    /\ avg_process_time = None
    /\ avg_concurrent_process_time = None
    /\ queue_duration = RatInt(1)
    /\ next_event = 0
    /\ fn_index = [e \in Events |-> 0]
    /\ data = [e \in Events |-> NoData]
    /\ websocket = [e \in Events |-> "open"]
    /\ started = FALSE
    /\ task = [b \in Events |-> NoTask]
    /\ bcast = [k \in 0..MaxEvents |-> NoBroadcast]
    /\ sent = [e \in Events |-> <<>>]
    /\ returned = NoCall
    /\ last_estimations = <<>>
    /\ releases = [b \in Events |-> 0]
    /\ value_error = FALSE

\* the step taken is neither a push nor the sending of an estimation
Quiet == returned' = NoCall /\ last_estimations' = <<>>

\* f with the entries of the events in es reset to v
Reset(f, es, v) == [e \in Events |-> IF e \in es THEN v ELSE f[e]]

(***************************** Queue operations ****************************)
\* start(): the dispatcher, and the periodic notifier unless live_updates
Start ==
    /\ ~started
    /\ started' = TRUE
    /\ Quiet
    /\ UNCHANGED <<confVars, event_queue, active_jobs, estVars, eventVars,
                   task, bcast, sent, releases, value_error>>

\* push(event) for a new Event on endpoint fn
Push(fn) ==
    /\ next_event < (IF faulty THEN MaxFaultyEvents ELSE MaxEvents)
    /\ LET e == next_event + 1
           r == PushResult(event_queue, e)
       IN /\ next_event' = e
          /\ fn_index' = [fn_index EXCEPT ![e] = IF r.rank = Full THEN 0 ELSE fn]
          /\ event_queue' = r.queue
          /\ returned' = r.rank
    /\ last_estimations' = <<>>
    /\ UNCHANGED <<confVars, active_jobs, estVars, data, websocket,
                   started, task, bcast, sent, releases, value_error>>

(***************************** the dispatcher ******************************)
RECURSIVE DispatchLoop(_, _, _, _)
\* The iterations of start_processing's loop that run without suspending:
\* while the queue is non-empty and a slot is free, one batch is extracted
\* and written into the first free slot.
DispatchLoop(q, jobs, claimed, err) ==
    IF q = <<>> \/ ~HasFreeSlot(jobs)
    THEN [queue |-> q, jobs |-> jobs, claimed |-> claimed, error |-> err]
    ELSE LET r == GetEventsInBatch(q)
         IN DispatchLoop(r.queue, ClaimSlot(jobs, r.events),
                         Append(claimed, [events |-> r.events, batch |-> r.batch]),
                         err \/ r.error)

\* start_processing, from one sleep to the next
StartProcessing ==
    /\ started
    /\ event_queue # <<>>
    /\ HasFreeSlot(active_jobs)
    /\ LET d == DispatchLoop(event_queue, active_jobs, <<>>, FALSE)
           heads == {Head(d.claimed[n].events) : n \in DOMAIN d.claimed}
           of(b) == CHOOSE n \in DOMAIN d.claimed : Head(d.claimed[n].events) = b
       IN /\ event_queue' = d.queue
          /\ active_jobs' = d.jobs
          /\ task' = [b \in Events |->
                        IF b \in heads THEN NewTask(d.claimed[of(b)]) ELSE task[b]]
          /\ bcast' = [k \in 0..MaxEvents |->
                        IF live_updates /\ k \in heads
                        THEN [NoBroadcast EXCEPT !.pc = "start"] ELSE bcast[k]]
          /\ value_error' = (value_error \/ d.error)
    /\ Quiet
    /\ UNCHANGED <<confVars, estVars, eventVars, started, sent, releases>>

(***************************** process_events ******************************)
\* gather_event_data's return value: False only when the send_data request
\* could not be sent; True after get_message, whatever it returned
GatherReturns(need, send_data_ok, body) == ~(need /\ ~send_data_ok)

\* call_prediction up to its Request: events[0].data is the body; for a batch
\* its .data is overwritten by the transposed payloads of the events that
\* have one.  With events[0].data = None, "data.data = ..." (batch) and
\* "dict(data)" (no batch) raise.
CallPrediction(events, batch, dat) ==
    LET first == events[1]
        with == SelectSeqBy(events, {e \in Events : dat[e].present})
        payloads == [n \in 1..Len(with) |-> dat[with[n]].data]
        body == [present |-> TRUE, data |-> ZipStar(payloads), batched |-> TRUE]
    IN IF ~dat[first].present
       THEN [raises |-> TRUE, data |-> dat, request |-> <<>>]
       ELSE IF batch
            THEN [raises |-> FALSE, data |-> [dat EXCEPT ![first] = body],
                  request |-> body.data]
            ELSE [raises |-> FALSE, data |-> dat, request |-> dat[first].data]

\* the finally block releasing the slot only when no close raised
SlotAfterClose_Escapes(jobs, events, close_raised) ==
    IF close_raised THEN jobs ELSE ReleaseSlot(jobs, events)
\* the finally block after its disconnects: "except Exception: pass" swallows
\* a failing close, then the slot is released
SlotAfterClose(jobs, events, close_raised) == ReleaseSlot(jobs, events)

\* a duration handed to update_estimation whatever the status
Duration_Always(response, calls) == calls
\* begin_time is taken once before the first call_prediction (line 284) and
\* end_time after the relay (line 338); with one unit of time per call,
\* end_time - begin_time is the number of calls made.  update_estimation runs
\* only for a response of status 200 (0: it does not run).
Duration(response, calls) == IF response.status = 200 THEN calls ELSE 0

\* Leaving the try block: with nothing to close, the finally block runs to its
\* end at once (the slot is released); otherwise it suspends in its first
\* disconnect.
EnterFinally(t, how) ==
    [NoTask EXCEPT !.pc = IF t.awake = <<>> THEN "done" ELSE "closing",
                   !.events = t.events, !.awake = t.awake, !.exit = how]

\* Event.session_hash: set in the constructor and assigned nowhere else
SessionHash(e) == "foo"
\* the (session_hash, fn_index) that reset_iterators is called with for e
ResetKey(e) == <<SessionHash(e), fn_index[e]>>

\* the record of a coroutine that has ended
Done == [NoTask EXCEPT !.pc = "done"]

\* What a step of batch b in its try block leaves: its record t2, the
\* messages handed to the websockets, the clean_event calls made, the
\* payloads, the connections and, if update_estimation ran, the duration it
\* was given (0: it did not run).
Apply(b, t2, msgs, cleans, dat, ws, duration) ==
    LET c == CleanEach(event_queue, cleans)
        ended == t2.pc = "done"
        gone == IF ended THEN Range(t2.events) ELSE {}
        jobs == IF ended THEN ReleaseSlot(active_jobs, t2.events) ELSE active_jobs
        est == IF duration > 0 THEN UpdateEstimation(EstState, duration, Len(c.queue))
               ELSE EstState
    IN /\ task' = [task EXCEPT ![b] = IF ended THEN Done ELSE t2]
       /\ sent' = Reset([e \in Events |-> sent[e] \o msgs[e]], gone, <<>>)
       /\ event_queue' = c.queue
       /\ value_error' = (value_error \/ c.error)
       /\ data' = Reset(dat, gone, NoData)
       /\ fn_index' = Reset(fn_index, gone, 0)
       /\ websocket' = ws
       /\ active_jobs' = jobs
       /\ releases' = [releases EXCEPT ![b] = IF jobs # active_jobs THEN @ + 1 ELSE @]
       /\ duration_history_total' = est.duration_history_total
       /\ duration_history_count' = est.duration_history_count
       /\ avg_process_time' = est.avg_process_time
       /\ avg_concurrent_process_time' = est.avg_concurrent_process_time
       /\ queue_duration' = est.queue_duration
       /\ Quiet
       /\ UNCHANGED <<confVars, next_event, started, bcast>>

NoMsgs == [e \in Events |-> <<>>]
\* what the environment of the run can do at a suspension point
GatherOutcomes == IF faulty THEN {"send_fail", "recv_lost", "recv_bad", "ok"} ELSE {"ok"}
SendOutcomes == IF faulty THEN BOOLEAN ELSE {TRUE}
CloseOutcomes == IF faulty THEN BOOLEAN ELSE {FALSE}
Answers == IF faulty THEN ResponseKinds ELSE {"generating", "final"}
Leavers(awake) == IF faulty THEN SUBSET Range(awake) ELSE {{}}

\* One iteration of the for loop of lines 274-281 for event number i of the
\* batch: gather_event_data, then process_starts.  After the last event: the
\* return of line 283, or begin_time and call_prediction up to its Request.
\*   send_fail: send_data cannot be sent     recv_lost: the client is gone
\*   recv_bad: the reply is malformed        ok: the payload arrives
GatherStep(b) ==
    /\ task[b].pc = "gather"
    /\ \E out \in GatherOutcomes, starts_ok \in SendOutcomes :
        LET t == task[b]
            e == t.events[t.i]
            need == ~data[e].present
            send_data_ok == websocket[e] = "open" /\ out # "send_fail"
            body == IF need /\ send_data_ok /\ out = "ok" THEN ClientPayload(e) ELSE data[e]
            ws1 == IF need /\ (~send_data_ok \/ out = "recv_lost") THEN "closed"
                   ELSE websocket[e]
            client_awake == GatherReturns(need, send_data_ok, body)
            starts_success == client_awake /\ ws1 = "open" /\ starts_ok
            ws2 == IF client_awake /\ ~starts_success THEN "closed" ELSE ws1
            msgs == [NoMsgs EXCEPT ![e] =
                        (IF need THEN <<Control("send_data")>> ELSE <<>>)
                        \o (IF client_awake THEN <<Control("process_starts")>> ELSE <<>>)]
            cleans == (IF need /\ (~send_data_ok \/ out # "ok") THEN <<e>> ELSE <<>>)
                      \o (IF client_awake /\ ~starts_success THEN <<e>> ELSE <<>>)
            dat == [data EXCEPT ![e] = body]
            ws == [websocket EXCEPT ![e] = ws2]
            awake == IF starts_success THEN Append(t.awake, e) ELSE t.awake
            t1 == [t EXCEPT !.awake = awake, !.i = t.i + 1]
            cp == CallPrediction(awake, t.batch, dat)
        IN IF t.i < Len(t.events) THEN Apply(b, t1, msgs, cleans, dat, ws, 0)
           ELSE IF awake = <<>> THEN Apply(b, EnterFinally(t1, "empty"), msgs, cleans, dat, ws, 0)
           ELSE IF cp.raises THEN Apply(b, EnterFinally(t1, "raised"), msgs, cleans, dat, ws, 0)
           ELSE Apply(b, [t1 EXCEPT !.pc = "predict", !.request = cp.request, !.calls = 1],
                      msgs, cleans, cp.data, ws, 0)

\* the rows list(zip(*response.json.get("data"))) of a batched answer
Rows(response) == TopElems(ZipStar(TopElems(response.data)))

\* The answer to a prediction call arrives; lost are the clients that went
\* away while it ran.  Lines 286-340: the upstream error branch, the streaming
\* loop up to its next call_prediction, or the single answer; then
\* update_estimation when the last answer's status is 200.  A call takes one
\* unit of time, so end_time - begin_time is the number of calls made.
ResponseStep(b) ==
    /\ task[b].pc = "predict"
    /\ \E kind \in Answers, lost \in Leavers(task[b].awake) :
        /\ kind = "generating" => task[b].gens < MaxGen
        /\ LET t == task[b]
               response == MakeResponse(kind, t.calls, t.request)
               ws == [e \in Events |-> IF e \in lost THEN "closed" ELSE websocket[e]]
               in_loop == t.gens > 0
               to_all(m) == ToAll(t.awake, m)
               failed(evs) == SelectSeqBy(evs, {e \in Events : ws[e] = "closed"})
               duration == Duration(response, t.calls)
               \* leaving the try block on this answer
               leave(how) == [EnterFinally(t, how) EXCEPT !.status = response.status]
               \* line 302: event is the variable of the last for loop that ran
               pinged == IF in_loop THEN Last(t.awake) ELSE Last(t.events)
               ping == [NoMsgs EXCEPT ![pinged] = <<Control("alive?")>>]
               generating == Msg("process_generating", response.data, response.leg,
                                 response.status = 200)
               cp == CallPrediction(t.awake, t.batch, data)
               old == t.old_response
               rows == Rows(response)
               sliced == t.batch /\ response.has_data
               reached == IF sliced THEN Min(Len(rows), Len(t.awake)) ELSE Len(t.awake)
               single == [e \in Events |->
                            LET n == FirstIndex(t.awake, e)
                            IN IF n = 0 \/ n > reached THEN <<>>
                               ELSE <<Msg("process_completed",
                                          IF sliced THEN rows[n] ELSE response.data,
                                          response.leg, response.status = 200)>>]
               t1 == t
           IN IF response.has_exception /\ ~in_loop
              THEN Apply(b, leave("error"),
                         to_all(Msg("process_completed", <<>>, response.leg, FALSE)),
                         failed(t.awake), data, ws, duration)
              ELSE IF response.has_exception
              \* response.json is None: "response.json.get" raises
              THEN Apply(b, EnterFinally(t1, "raised"), NoMsgs, <<>>, data, ws, 0)
              ELSE IF response.is_generating /\ py_lt_38 /\ ws[pinged] = "closed"
              THEN Apply(b, leave("not_alive"), ping, <<pinged>>, data, ws, 0)
              ELSE IF response.is_generating
              THEN Apply(b, [t1 EXCEPT !.old_response = response, !.gens = @ + 1,
                                       !.calls = @ + 1, !.request = cp.request],
                         [e \in Events |-> (IF py_lt_38 THEN ping[e] ELSE <<>>)
                                            \o to_all(generating)[e]],
                         failed(t.awake), cp.data, ws, 0)
              ELSE IF in_loop
              THEN Apply(b, leave("streamed"),
                         to_all(Msg("process_completed", old.data, old.leg, old.status = 200)),
                         failed(t.awake), data, ws, duration)
              ELSE IF reached < Len(t.awake)
              \* list(...)[e] raises IndexError
              THEN Apply(b, leave("raised"), single,
                         failed(SubSeq(t.awake, 1, reached)), data, ws, 0)
              ELSE Apply(b, leave("single"),
                         single, failed(t.awake), data, ws, duration)

\* An exception raised at a suspension point of the try block (a cancelled
\* task, an unexpected error): control passes to the finally block.
Fault(b) ==
    /\ faulty
    /\ task[b].pc \in {"gather", "predict"}
    /\ Apply(b, EnterFinally(task[b], "raised"), NoMsgs, <<>>, data, websocket, 0)

\* The finally block, lines 342-349: the disconnects (close_raised: at least
\* one close raised), the slot release, and clean_event for the first awake
\* event, up to the first reset_iterators request.
ClosingStep(b) ==
    /\ task[b].pc = "closing"
    /\ \E close_raised \in CloseOutcomes :
        LET t == task[b]
            jobs == SlotAfterClose(active_jobs, t.events, close_raised)
            c == CleanEach(event_queue, <<t.awake[1]>>)
        IN /\ websocket' = [e \in Events |->
                              IF e \in Range(t.awake) THEN "closed" ELSE websocket[e]]
           /\ active_jobs' = jobs
           /\ releases' = [releases EXCEPT ![b] = IF jobs # active_jobs THEN @ + 1 ELSE @]
           /\ event_queue' = c.queue
           /\ value_error' = (value_error \/ c.error)
           /\ task' = [task EXCEPT ![b] =
                         [NoTask EXCEPT !.pc = "reset", !.events = t.events,
                                        !.awake = t.awake, !.j = 1]]
           /\ sent' = Reset(sent, Range(t.events), <<>>)
           /\ data' = Reset(data, Range(t.events), NoData)
    /\ Quiet
    /\ UNCHANGED <<confVars, estVars, next_event, fn_index, started, bcast>>

\* reset_iterators for awake event number j returns; lines 348-354 go on to
\* the next awake event (clean_event, then its reset request) or end.
ResetStep(b) ==
    /\ task[b].pc = "reset"
    /\ LET t == task[b]
           more == t.j < Len(t.awake)
           c == CleanEach(event_queue, IF more THEN <<t.awake[t.j + 1]>> ELSE <<>>)
           gone == IF more THEN {} ELSE Range(t.events)
       IN /\ task' = [task EXCEPT ![b] = IF more THEN [t EXCEPT !.j = t.j + 1] ELSE Done]
          /\ event_queue' = c.queue
          /\ value_error' = (value_error \/ c.error)
          /\ fn_index' = Reset(fn_index, gone, 0)
    /\ Quiet
    /\ UNCHANGED <<confVars, active_jobs, estVars, next_event, data, websocket,
                   started, bcast, sent, releases>>

(***************************** the broadcaster *****************************)
\* broadcast_estimations up to its gather: one estimation object, and one
\* send_estimation per (rank, event) of the queue as it is now
BeginBroadcast(k) ==
    bcast' = [bcast EXCEPT ![k] =
                IF event_queue = <<>> THEN NoBroadcast
                ELSE [pc |-> "send", estimation |-> GetEstimation,
                      todo |-> event_queue, failing |-> {}]]

\* broadcast_live_estimations, started by the dispatcher for the batch of b
BroadcastLive(b) ==
    /\ bcast[b].pc = "start"
    /\ BeginBroadcast(b)
    /\ Quiet
    /\ UNCHANGED <<confVars, event_queue, active_jobs, estVars, eventVars,
                   started, task, sent, releases, value_error>>

\* notify_clients wakes from its sleep with the queue non-empty
NotifyClients ==
    /\ started
    /\ ~live_updates
    /\ bcast[0].pc = "none"
    /\ event_queue # <<>>
    /\ BeginBroadcast(0)
    /\ Quiet
    /\ UNCHANGED <<confVars, event_queue, active_jobs, estVars, eventVars,
                   started, task, sent, releases, value_error>>

RECURSIVE EstimationsFrom(_, _, _)
\* The messages of the send_estimation calls for ranks r .. n - 1: they share
\* one estimation object, each call writes rank and rank_eta into it and
\* hands estimation.dict() to send_message.
EstimationsFrom(estimation, n, r) ==
    IF r >= n THEN <<>>
    ELSE LET mine == WithRank(estimation, r)
         IN <<mine>> \o EstimationsFrom(mine, n, r + 1)

\* The send_estimation tasks that gather made for broadcast k run one after
\* the other up to their send (they were scheduled together).  failing are
\* the events whose send raises.
SendEstimation(k) ==
    /\ bcast[k].pc = "send"
    /\ \E failing \in SUBSET Range(bcast[k].todo) :
        /\ \A e \in Range(bcast[k].todo) :
              (websocket[e] = "closed" => e \in failing) /\ (e \in failing => faulty)
        /\ last_estimations' = EstimationsFrom(bcast[k].estimation, Len(bcast[k].todo), 0)
        /\ websocket' = [e \in Events |-> IF e \in failing THEN "closed" ELSE websocket[e]]
        /\ bcast' = [bcast EXCEPT ![k] =
                       IF failing = {} THEN NoBroadcast
                       ELSE [NoBroadcast EXCEPT !.pc = "prune", !.failing = failing]]
    /\ returned' = NoCall
    /\ UNCHANGED <<confVars, event_queue, active_jobs, estVars, next_event, fn_index,
                   data, started, task, sent, releases, value_error>>

\* A failed send of broadcast k is noticed: clean_event in send_message's
\* except clause, and again in send_estimation ("if not client_awake").
PruneStep(k) ==
    /\ bcast[k].pc = "prune"
    /\ \E e \in bcast[k].failing :
        LET c == CleanEach(event_queue, <<e, e>>)
            gone == Range(event_queue) \ Range(c.queue)
            rest == bcast[k].failing \ {e}
        IN /\ event_queue' = c.queue
           /\ value_error' = (value_error \/ c.error)
           /\ fn_index' = Reset(fn_index, gone, 0)
           /\ bcast' = [bcast EXCEPT ![k] =
                          IF rest = {} THEN NoBroadcast ELSE [@ EXCEPT !.failing = rest]]
    /\ Quiet
    /\ UNCHANGED <<confVars, active_jobs, estVars, next_event, data, websocket,
                   started, task, sent, releases>>

(***************************** specification *******************************)
Next ==
    \/ Start
    \/ \E fn \in FnIndices : Push(fn)
    \/ StartProcessing
    \/ \E b \in Events : GatherStep(b)
    \/ \E b \in Events : ResponseStep(b)
    \/ \E b \in Events : Fault(b)
    \/ \E b \in Events : ClosingStep(b)
    \/ \E b \in Events : ResetStep(b)
    \/ \E b \in Events : BroadcastLive(b)
    \/ NotifyClients
    \/ \E k \in 0..MaxEvents : SendEstimation(k)
    \/ \E k \in 0..MaxEvents : PruneStep(k)

Spec == Init /\ [][Next]_vars

\* The runs in which connections and the endpoint may fail, under the
\* fairness the event loop gives: a coroutine whose await has completed is
\* run, and the websocket calls, the prediction and reset requests and the
\* closes of a batch all return or raise in the end.
FairInit == Init /\ faulty
ProcessEventsStep(b) == GatherStep(b) \/ ResponseStep(b) \/ ClosingStep(b) \/ ResetStep(b)
FairSpec ==
    FairInit /\ [][Next]_vars /\ \A b \in Events : WF_vars(ProcessEventsStep(b))

(***************************** the estimator alone *************************)
\* update_estimation(d) called directly, on a queue that holds q events, for
\* the concurrency limits 1, 2 and 3
EstInit ==
    /\ \E c \in 1..3, q \in 0..2 :
        /\ max_thread_count = c
        /\ event_queue = [i \in 1..q |-> i]
        /\ next_event = q
    /\ live_updates = FALSE
    /\ max_size = NoLimit
    /\ blocks_dependencies = NoBatching
    /\ py_lt_38 = FALSE
    /\ faulty = FALSE
    /\ active_jobs = [s \in 1..max_thread_count |-> Empty]
    /\ duration_history_total = 0
    /\ duration_history_count = 0
    /\ avg_process_time = None
    /\ avg_concurrent_process_time = None
    /\ queue_duration = RatInt(1)
    /\ fn_index = [e \in Events |-> 0]
    /\ data = [e \in Events |-> NoData]
    /\ websocket = [e \in Events |-> "open"]
    /\ started = FALSE
    /\ task = [b \in Events |-> NoTask]
    /\ bcast = [k \in 0..MaxEvents |-> NoBroadcast]
    /\ sent = [e \in Events |-> <<>>]
    /\ returned = NoCall
    /\ last_estimations = <<>>
    /\ releases = [b \in Events |-> 0]
    /\ value_error = FALSE

UpdateEstimationCall(d) ==
    /\ duration_history_count < MaxSamples
    /\ LET est == UpdateEstimation(EstState, d, Len(event_queue))
       IN /\ duration_history_total' = est.duration_history_total
          /\ duration_history_count' = est.duration_history_count
          /\ avg_process_time' = est.avg_process_time
          /\ avg_concurrent_process_time' = est.avg_concurrent_process_time
          /\ queue_duration' = est.queue_duration
    /\ UNCHANGED <<confVars, event_queue, active_jobs, eventVars, started, task,
                   bcast, sent, returned, last_estimations, releases, value_error>>

EstNext == \E d \in 0..MaxDuration : UpdateEstimationCall(d)

EstSpec == EstInit /\ [][EstNext]_vars

(***************************** properties **********************************)
\* the cells of active_jobs that hold the batch whose first event is b
CellsOf(jobs, b) == {c \in DOMAIN jobs : jobs[c] # Empty /\ Head(jobs[c]) = b}
FreeCells(jobs) == {c \in DOMAIN jobs : jobs[c] = Empty}
\* the batches the dispatcher claims in the step taken
Claimed == {b \in Events : task[b].pc = "none" /\ task'[b].pc = "gather"}
\* how many messages tagged kind a log holds
Count(log, kind) == Cardinality({i \in DOMAIN log : log[i].msg = kind})
\* the tags of the relayed results in a log, in the order sent
Relayed(log) ==
    LET results == SelectSeq(log, LAMBDA m : m.msg \in {"process_generating",
                                                        "process_completed"})
    IN [i \in DOMAIN results |-> results[i].msg]
Increasing(q) == \A i, j \in DOMAIN q : i < j => q[i] < q[j]

\* C1: a slot claimed for a batch is released by that batch's cleanup exactly
\* once on every exit path: the release counter of a batch never exceeds one,
\* it is one and the batch is in no cell once the finally block is past its
\* release, the batch sits in exactly one cell until then, and every batch
\* that was started gets there.
C1_SlotReleasedExactlyOnce ==
    /\ [](\A b \in Events :
            /\ releases[b] <= 1
            /\ task[b].pc \in {"reset", "done"}
                 => releases[b] = 1 /\ CellsOf(active_jobs, b) = {}
            /\ task[b].pc \in {"gather", "predict", "closing"}
                 => releases[b] = 0 /\ Cardinality(CellsOf(active_jobs, b)) = 1)
    /\ \A b \in Events : (task[b].pc = "gather") ~> (task[b].pc = "done" /\ releases[b] = 1)
\* a batch of a faulty run has ended and its slot was released once
C1_Witness ==
    faulty /\ \E b \in Events : task[b].pc = "done" /\ releases[b] = 1

C3_PushRankOrFull ==
    /\ [][next_event' # next_event =>
            IF max_size = NoLimit \/ Len(event_queue) < max_size
            THEN /\ event_queue' = Append(event_queue, next_event')
                 /\ returned' = Len(event_queue)
            ELSE /\ event_queue' = event_queue
                 /\ returned' = Full]_vars
    /\ [](max_size # NoLimit => Len(event_queue) <= max_size)
\* a push was refused on a full queue
C3_Witness == returned = Full /\ max_size # NoLimit /\ Len(event_queue) = max_size

\* C4: a batch extracted for a batching endpoint with max_batch_size k has at
\* most k events, all with the fn_index of its first, and the events left in
\* the queue keep their order.
C4_BatchBoundedSameFn ==
    [][\A b \in Claimed :
         blocks_dependencies[fn_index[b]].batch
         => /\ Len(task'[b].events) <= blocks_dependencies[fn_index[b]].max_batch_size
            /\ \A e \in Range(task'[b].events) : fn_index[e] = fn_index[b]
            /\ Range(task'[b].events) \subseteq Range(event_queue)
            /\ event_queue' = SelectSeqBy(event_queue, Range(event_queue'))]_vars
\* events 1 and 3 were batched over event 2, which is on another endpoint
C4_Witness ==
    /\ task[1].pc = "gather" /\ task[1].batch
    /\ task[1].events = <<1, 3>>
    /\ event_queue = <<2>>

\* C5: without batching the dispatcher claims events in push order: a
\* dispatcher step claims exactly the first n queued events, n the smaller of
\* the number of free slots and the queue length, each alone into a slot that
\* was free; the others stay queued in order, and nothing is claimed while no
\* slot is free.  (Events are numbered in push order and the queue is sorted.)
C5_FifoDispatch ==
    /\ [](Increasing(event_queue))
    /\ [][(blocks_dependencies = NoBatching /\ Claimed # {}) =>
            LET n == Min(Cardinality(FreeCells(active_jobs)), Len(event_queue))
            IN /\ n >= 1
               /\ Claimed = {event_queue[i] : i \in 1..n}
               /\ event_queue' = SubSeq(event_queue, n + 1, Len(event_queue))
               /\ \A b \in Claimed :
                    /\ task'[b].events = <<b>>
                    /\ \E c \in FreeCells(active_jobs) : active_jobs'[c] = <<b>>]_vars
\* two slots: B is in flight in the second, and C took the first after A
\* released it
C5_Witness ==
    /\ blocks_dependencies = NoBatching
    /\ max_thread_count = 2
    /\ active_jobs = <<(<<3>>), (<<2>>)>>
    /\ task[1].pc \in {"reset", "done"}

\* C6: a failure while gathering the data of one event of a batch (send_data
\* cannot be sent, no reply, a malformed reply) leaves that event out of the
\* awake set, so that every event handed to call_prediction has a payload.
C6_GatherFailureExcludesEvent ==
    \A b \in Events :
        task[b].pc = "predict" => \A e \in Range(task[b].awake) : data[e].present

\* C7: when the endpoint answers is_generating k >= 1 times and then not,
\* each awake event is handed k process_generating messages and then one
\* process_completed message, and call_prediction ran k + 1 times.
C7_StreamingRelay ==
    [][\A b \in Events :
         (task[b].pc = "predict" /\ task'[b].pc = "closing" /\ task'[b].exit = "streamed")
         => LET k == task[b].gens
            IN /\ k >= 1
               /\ task[b].calls = k + 1
               /\ \A e \in Range(task[b].awake) :
                    Relayed(sent'[e]) = [i \in 1..(k + 1) |->
                                           IF i <= k THEN "process_generating"
                                           ELSE "process_completed"]]_vars
\* a streaming batch has ended after two generating answers
C7_Witness ==
    \E b \in Events :
        /\ task[b].pc = "closing" /\ task[b].exit = "streamed"
        /\ \A e \in Range(task[b].awake) :
             Relayed(sent[e]) = <<"process_generating", "process_generating",
                                  "process_completed">>

\* C8 as stated: the first sample d gives both averages d, and a second
\* sample of the same d changes neither average.
C8_SecondSampleChangesNothing ==
    [][duration_history_count' = duration_history_count + 1 =>
         LET d == duration_history_total' - duration_history_total
         IN /\ duration_history_count = 0
                => /\ avg_process_time' = RatInt(d)
                   /\ avg_concurrent_process_time' = RatInt(d)
            /\ (duration_history_count = 1 /\ d = duration_history_total)
                => /\ avg_process_time' = avg_process_time
                   /\ avg_concurrent_process_time' = avg_concurrent_process_time]_vars
\* C8: the first sample d gives both averages d; a second sample of the same
\* d leaves avg_process_time at d and makes avg_concurrent_process_time
\* d / min(max_thread_count, 2).
C8_SecondSampleDividesByMin ==
    [][duration_history_count' = duration_history_count + 1 =>
         LET d == duration_history_total' - duration_history_total
         IN /\ duration_history_count = 0
                => /\ avg_process_time' = RatInt(d)
                   /\ avg_concurrent_process_time' = RatInt(d)
            /\ (duration_history_count = 1 /\ d = duration_history_total)
                => /\ avg_process_time' = avg_process_time
                   /\ avg_process_time' = RatInt(d)
                   /\ avg_concurrent_process_time' = Rat(d, Min(max_thread_count, 2))]_vars
\* the largest duration was fed twice to a queue with two slots
C8_Witness ==
    /\ max_thread_count = 2
    /\ duration_history_count = 2
    /\ duration_history_total = 2 * MaxDuration
    /\ avg_process_time = RatInt(MaxDuration)
    /\ avg_concurrent_process_time = Rat(MaxDuration, 2)

\* C9 as stated: before the first update of the estimator every estimation
\* sent reports the two averages, rank_eta and queue_eta as absent.
C9_AllEtasAbsent ==
    duration_history_count = 0 =>
        \A i \in DOMAIN last_estimations :
            /\ last_estimations[i].avg_event_process_time = None
            /\ last_estimations[i].avg_event_concurrent_process_time = None
            /\ last_estimations[i].rank_eta = None
            /\ last_estimations[i].queue_eta = None
\* C9: before the first update of the estimator every estimation sent reports
\* the two averages and rank_eta as absent, and queue_eta as the number 1.
C9_AveragesAbsentQueueEtaOne ==
    duration_history_count = 0 =>
        \A i \in DOMAIN last_estimations :
            /\ last_estimations[i].avg_event_process_time = None
            /\ last_estimations[i].avg_event_concurrent_process_time = None
            /\ last_estimations[i].rank_eta = None
            /\ last_estimations[i].queue_eta = RatInt(1)
\* estimations were sent to two queued events before any update
C9_Witness == duration_history_count = 0 /\ Len(last_estimations) = 2

\* C10: clean_event never fails: no deque.remove is attempted on an event
\* that is not in the queue, whatever the interleaving of the dispatcher, the
\* batches' cleanups and the prunings; and no event is in the queue twice.
C10_CleanEventNeverFails ==
    /\ ~value_error
    /\ \A i, j \in DOMAIN event_queue : i # j => event_queue[i] # event_queue[j]
\* event 1 (always accepted: the queue is empty when it is pushed) was never
\* dispatched and is no longer queued: a broadcast pruned it, calling
\* clean_event twice for it
C10_Witness ==
    /\ next_event >= 1
    /\ task[1].pc = "none"
    /\ 1 \notin Range(event_queue)
    /\ \A k \in 0..MaxEvents : 1 \notin bcast[k].failing

\* how often event e occurs in the queue and in the cells of active_jobs
Occurrences(e) ==
    Cardinality({i \in DOMAIN event_queue : event_queue[i] = e})
    + Cardinality({<<c, i>> \in (DOMAIN active_jobs) \X (1..MaxEvents) :
                     i <= Len(active_jobs[c]) /\ active_jobs[c][i] = e})

\* C11: an event is in at most one place, the queue or one cell of
\* active_jobs, and in the batch of at most one process_events coroutine;
\* events enter the queue only by push and a batch is taken out of the queue
\* when it is claimed, so no event is handed to process_events twice.
C11_NoDoubleProcessing ==
    /\ [](\A e \in Events : Occurrences(e) <= 1)
    /\ [](\A b1, b2 \in Events :
            b1 # b2 => Range(task[b1].events) \cap Range(task[b2].events) = {})
    /\ [][/\ \A e \in Range(event_queue') :
               e \in Range(event_queue) \/ (e = next_event' /\ next_event' = next_event + 1)
          /\ \A b \in Claimed :
               /\ Range(task'[b].events) \subseteq Range(event_queue)
               /\ Range(task'[b].events) \cap Range(event_queue') = {}]_vars
\* a batch of two events holds a cell while another event is queued
C11_Witness ==
    /\ event_queue # <<>>
    /\ \E c \in DOMAIN active_jobs : Len(active_jobs[c]) = 2

\* C12: a non-empty cell of active_jobs holds the batch of one process_events
\* coroutine that has not reached its slot release, distinct cells hold
\* distinct batches, there are max_thread_count cells, and the dispatcher
\* writes a batch only into a cell that is empty.
C12_SlotTable ==
    /\ [](/\ Len(active_jobs) = max_thread_count
          /\ \A c \in DOMAIN active_jobs :
               active_jobs[c] # Empty =>
                 /\ task[Head(active_jobs[c])].pc \in {"gather", "predict", "closing"}
                 /\ task[Head(active_jobs[c])].events = active_jobs[c]
                 /\ \A c2 \in DOMAIN active_jobs : c2 # c => active_jobs[c2] # active_jobs[c])
    /\ [][\A c \in DOMAIN active_jobs :
            (active_jobs'[c] # active_jobs[c] /\ active_jobs'[c] # Empty)
            => active_jobs[c] = Empty]_vars
\* both cells of a queue with two slots hold a batch
C12_Witness ==
    /\ max_thread_count = 2
    /\ \A c \in DOMAIN active_jobs : active_jobs[c] # Empty

\* batch b leaves its streaming loop: the answer that is not generating came
StreamedExit(b) == task[b].pc = "predict" /\ task'[b].exit = "streamed"

\* C13: when a streaming cycle ends, the process_completed message of every
\* awake event carries the payload and the success flag of the last answer
\* received, the one that is not generating (the answer to call number
\* task[b].calls, which echoes the request of that call).
C13_CompletedCarriesLastResponse ==
    [][\A b \in Events : StreamedExit(b) =>
         \A e \in Range(task[b].awake) :
            LET m == Last(sent'[e])
            IN /\ m.msg = "process_completed"
               /\ m.leg = task[b].calls
               /\ m.success = (task'[b].status = 200)
               /\ task'[b].status = 200 => m.output = task[b].request]_vars

\* C14: the estimation state changes only in the step in which a batch ends
\* its prediction cycle with status 200, and then accumulates: the count
\* grows by one and the total by a positive duration.  A batch that ends
\* with an empty awake set made no prediction call, leaves the estimation
\* state as it is and frees its slot; so does, for the estimation state, a
\* batch ending in an upstream error or a status other than 200.
C14_EstimationOnlyOn200 ==
    [][/\ estVars' # estVars =>
            \E b \in Events :
               /\ task[b].pc = "predict" /\ task'[b].pc = "closing"
               /\ task'[b].exit \in {"streamed", "single"}
               /\ task'[b].status = 200
               /\ duration_history_count' = duration_history_count + 1
               /\ duration_history_total' > duration_history_total
       /\ \A b \in Events :
            /\ (task[b].pc = "gather" /\ task'[b].pc = "done") =>
                 /\ task[b].calls = 0
                 /\ estVars' = estVars
                 /\ CellsOf(active_jobs, b) # {} /\ CellsOf(active_jobs', b) = {}
            /\ (task[b].pc = "predict" /\ task'[b].pc = "closing" /\ task'[b].status # 200)
                 => estVars' = estVars]_vars
\* one cycle has been counted and a batch has just ended with an upstream
\* error or with a status other than 200
C14_Witness ==
    /\ duration_history_count >= 1
    /\ \E b \in Events :
         /\ task[b].pc = "closing"
         /\ task[b].exit \in {"error", "streamed", "single"}
         /\ task[b].status # 200

\* C15: in every estimation message sent after at least one counted cycle,
\* queue_eta is avg_event_concurrent_process_time times the queue_size of
\* that same message.
C15_QueueEtaTracksQueueSize ==
    \A n \in DOMAIN last_estimations :
       LET m == last_estimations[n]
       IN m.avg_event_concurrent_process_time # None =>
            m.queue_eta = RatMul(m.avg_event_concurrent_process_time, RatInt(m.queue_size))

\* C16: a streaming cycle feeds the estimator the duration of its final leg
\* alone, one prediction call, and only when that leg's status is 200; a
\* final status other than 200 feeds it nothing.
C16_StreamingCountsFinalLeg ==
    [][\A b \in Events : StreamedExit(b) =>
         IF task'[b].status = 200
         THEN /\ duration_history_count' = duration_history_count + 1
              /\ duration_history_total' = duration_history_total + 1
         ELSE estVars' = estVars]_vars

\* batch b leaves the single branch on an answer of status 200: all its
\* messages are out, or list(zip(...))[e] raised on the way
SingleExit(b) ==
    /\ task[b].pc = "predict" /\ task[b].gens = 0
    /\ task'[b].pc = "closing" /\ task'[b].exit \in {"single", "raised"}
    /\ task'[b].status = 200

\* C17: after a single answer every awake event has its process_completed
\* message; for a batch the i-th awake event gets the row at position i of
\* the de-transposed answer, which (the endpoint echoing the columnar
\* request) is that event's own payload and never one made from another
\* event's input; without batching the whole output is relayed unchanged.
C17_OwnSlice ==
    [][\A b \in Events : SingleExit(b) =>
         \A n \in 1..Len(task[b].awake) :
            LET e == task[b].awake[n]
                m == Last(sent'[e])
            IN /\ m.msg = "process_completed"
               /\ m.output = IF task[b].batch THEN ClientPayload(e).data
                             ELSE task[b].request]_vars

\* the events at positions 2.. of queue q that go with its head into a batch
\* of at most k events: those on the head's endpoint that have fewer than
\* k - 1 events of that endpoint between the head and themselves
FirstMatches(q, k) ==
    {q[n] : n \in {n \in 2..Len(q) :
                     /\ fn_index[q[n]] = fn_index[q[1]]
                     /\ Cardinality({p \in 2..(n - 1) : fn_index[q[p]] = fn_index[q[1]]})
                          < k - 1}}

\* C18: a step in which the dispatcher extracts one batch takes the front of
\* the queue as the batch's head; on a batching endpoint with maximum batch
\* size k the rest of the batch is the first k - 1 later events of the
\* head's endpoint, in queue order (all of them if there are fewer), on
\* another endpoint the batch is the head alone; exactly the events of the
\* batch leave the queue and the others keep their order.
C18_FifoWithSkip ==
    [][\A b \in Claimed : Cardinality(Claimed) = 1 =>
         LET q == event_queue
             dep == blocks_dependencies[fn_index[Head(q)]]
             rest == IF dep.batch THEN FirstMatches(q, dep.max_batch_size) ELSE {}
             batch == task'[b].events
         IN /\ q # <<>> /\ Head(batch) = Head(q)
            /\ Tail(batch) = SelectSeqBy(Tail(q), rest)
            /\ event_queue' = SelectSeqBy(Tail(q), Events \ rest)]_vars
\* X, Y, Z = 1, 2, 3 on the batching endpoint with maximum batch size 2:
\* the batch is <<1, 2>> and 3 alone remains queued
C18_Witness ==
    /\ blocks_dependencies[0].batch /\ blocks_dependencies[0].max_batch_size = 2
    /\ \A e \in 1..3 : fn_index[e] = 0
    /\ task[1].pc = "gather" /\ task[1].events = <<1, 2>>
    /\ event_queue = <<3>>

\* C19: call_prediction leaves the payload of every event of its batch as it
\* was, and a prediction call issued again inside the streaming loop sends
\* the request body of the call before it.
C19_CallPredictionKeepsPayloads ==
    [][\A b \in Events :
         /\ (task[b].pc = "predict" /\ task'[b].pc = "predict") =>
              /\ task'[b].request = task[b].request
              /\ \A e \in Range(task[b].awake) : data'[e] = data[e]
         /\ (task[b].pc = "gather" /\ task'[b].pc = "predict") =>
              \A e \in Range(task'[b].awake) \ {Last(task[b].events)} :
                 data'[e] = data[e]]_vars

\* the batches whose finally block sends a reset_iterators request in the
\* step taken: the first one after the slot release, or the next one
IssuesReset ==
    {b \in Events : /\ task'[b].pc = "reset"
                    /\ task[b].pc = "closing" \/ task'[b].j # task[b].j}

\* C20: while a batch is between its first prediction call and its final
\* completion message, no other batch's cleanup sends a reset_iterators
\* request for the (session_hash, fn_index) of one of its awake events.
C20_NoResetDuringRun ==
    [][\A b \in IssuesReset : \A b2 \in Events \ {b} :
         task[b2].pc = "predict" =>
            \A e2 \in Range(task[b2].awake) :
               ResetKey(e2) # ResetKey(task'[b].awake[task'[b].j])]_vars

====
